---------------------------- MODULE Spec2Model ----------------------------
(***************************************************************************)
(* A model of the gdb pretty printers of the futures library,              *)
(* src/shared/gdb/futures_printers.py.                                     *)
(*                                                                         *)
(* A Python str is a sequence of one-character strings, so that the text   *)
(* operations of the source (strip, startswith, endswith, find, rfind,     *)
(* slicing, regular expressions) are computed and not assumed.             *)
(***************************************************************************)
EXTENDS Integers, Sequences, FiniteSets, TLC

VARIABLES
    pretty_printers,  \* the host's printer chains: handle -> list of lookup functions
    stack,            \* the print requests in progress, outermost first
    T,                \* the type whose text is handed to strip_qualifiers
    arg,              \* the argument of the last direct call (a helper, a registration)
    returned          \* what the last direct call of a helper returned, and
                      \* the exception it raised: "" for none, and the
                      \* helpers have no statement that raises

vars == <<pretty_printers, stack, T, arg, returned>>

(***************************************************************************)
(* Bounds of the model.                                                    *)
(***************************************************************************)
MaxLen == 4        \* longest generated parameter-pack text
MaxQuals == 2      \* most leading, and most trailing, qualifiers of a type text
DiscSpan == 3      \* discriminants range over (0 - DiscSpan) .. (4 + DiscSpan)
MaxChain == 2      \* longest printer chain
MaxDepth == 2      \* deepest nesting of print requests
MaxTokens == 3     \* longest qualifier list given to apply_qualifiers directly

(***************************************************************************)
(* Python str primitives.                                                  *)
(***************************************************************************)
Min(a, b) == IF a < b THEN a ELSE b

IsSpace(c) == c = " "

\* s[b:e] for 0 <= b, 0 <= e: Python clamps the slice to the string.
Slice(s, b, e) == SubSeq(s, b + 1, Min(e, Len(s)))

StartsWith(s, p) == Len(p) <= Len(s) /\ SubSeq(s, 1, Len(p)) = p

EndsWith(s, p) == Len(p) <= Len(s) /\ SubSeq(s, Len(s) - Len(p) + 1, Len(s)) = p

RECURSIVE LStrip(_)
LStrip(s) == IF s # <<>> /\ IsSpace(Head(s)) THEN LStrip(Tail(s)) ELSE s

RECURSIVE RStrip(_)
RStrip(s) ==
    IF s # <<>> /\ IsSpace(s[Len(s)]) THEN RStrip(SubSeq(s, 1, Len(s) - 1)) ELSE s

Strip(s) == LStrip(RStrip(s))

\* The 0-based positions at which sub occurs in s.
Occurrences(s, sub) ==
    {i \in 0..(Len(s) - Len(sub)) : SubSeq(s, i + 1, i + Len(sub)) = sub}

\* s.find(sub) and s.rfind(sub): the lowest and highest position, or -1.
Find(s, sub) ==
    IF Occurrences(s, sub) = {} THEN -1
    ELSE CHOOSE i \in Occurrences(s, sub) : \A j \in Occurrences(s, sub) : i <= j

RFind(s, sub) ==
    IF Occurrences(s, sub) = {} THEN -1
    ELSE CHOOSE i \in Occurrences(s, sub) : \A j \in Occurrences(s, sub) : j <= i

\* qps[::-1]
Reverse(s) == [i \in 1..Len(s) |-> s[Len(s) + 1 - i]]

(***************************************************************************)
(* split_parameter_pack: the generator, run to exhaustion.  out is the     *)
(* list of the values yielded so far.                                      *)
(***************************************************************************)
RECURSIVE split_loop(_, _, _, _, _)
split_loop(typename, unmatched, b, e, out) ==
    IF e < Len(typename)
    THEN LET c == typename[e + 1] IN
         IF c = "," /\ unmatched = 0
         THEN \* yield typename[b:e].strip(); b = e = e + 1; then e += 1
              split_loop(typename, unmatched, e + 1, (e + 1) + 1,
                         Append(out, Strip(Slice(typename, b, e))))
         ELSE IF c = "<"
         THEN split_loop(typename, unmatched + 1, b, e + 1, out)
         ELSE IF c = ">"
         THEN split_loop(typename, unmatched - 1, b, e + 1, out)
         ELSE split_loop(typename, unmatched, b, e + 1, out)
    ELSE Append(out, Strip(Slice(typename, b, e)))

split_parameter_pack(typename) == split_loop(typename, 0, 0, 0, <<>>)

(***************************************************************************)
(* Direct calls of the helpers.                                            *)
(***************************************************************************)
NotCalled == [fn |-> "none", exc |-> "", val |-> <<>>]

NoType == [base |-> <<>>, lead |-> <<>>, trail |-> <<>>, tight |-> FALSE, pad |-> FALSE]

PackAlphabet == {"a", ",", "<", ">", " "}

Strings(alphabet, n) == UNION {[1..k -> alphabet] : k \in 0..n}

PackSamples ==
    { <<"A","<","B",",","C",">",",","D","<","E",">">>,
      <<"A","<","B",",","C",">",",","D">>,
      <<"R",","," ","O","p","<","X",","," ","Y",">">> }

PackTexts == Strings(PackAlphabet, MaxLen) \cup PackSamples

\* The handles a chain hangs on: the gdb module itself and an objfile.
Handles == {"gdb", "objfile"}

NoChains == [h \in Handles |-> <<>>]

InitSplit ==
    /\ arg \in PackTexts
    /\ returned = NotCalled
    /\ T = NoType
    /\ pretty_printers = NoChains
    /\ stack = <<>>

\* list(split_parameter_pack(arg)): the generator runs to its end for every
\* str, since slicing and strip() accept every position.
CallSplit ==
    /\ returned.fn = "none"
    /\ returned' = [fn |-> "split_parameter_pack", exc |-> "",
                    val |-> split_parameter_pack(arg)]
    /\ UNCHANGED <<pretty_printers, stack, T, arg>>

NextSplit == CallSplit

SpecSplit == InitSplit /\ [][NextSplit]_vars

(***************************************************************************)
(* C1.  What the claim asks of split_parameter_pack: a ',' separates       *)
(* exactly when the count of '<' minus the count of '>' before it is 0,    *)
(* and the arguments are the trimmed texts between the separators.         *)
(***************************************************************************)
Count(s, c, n) == Cardinality({j \in 1..n : s[j] = c})

DepthBefore(s, i) == Count(s, "<", i - 1) - Count(s, ">", i - 1)

Separators(s) == {i \in 1..Len(s) : s[i] = "," /\ DepthBefore(s, i) = 0}

DepthZeroSplit(s) ==
    LET seps == Separators(s)
        n == Cardinality(seps)
        pos(k) == IF k = 0 THEN 0
                  ELSE IF k = n + 1 THEN Len(s) + 1
                  ELSE CHOOSE i \in seps : Cardinality({j \in seps : j < i}) = k - 1
    IN  [k \in 1..(n + 1) |-> Strip(SubSeq(s, pos(k - 1) + 1, pos(k) - 1))]

\* C1: every input is split at exactly its depth-0 commas, so that the
\* arguments yielded are the trimmed texts between them, one more than there
\* are depth-0 commas.
C1_SplitsAtDepthZeroCommas ==
    returned.fn = "split_parameter_pack" =>
        /\ returned.val = DepthZeroSplit(arg)
        /\ Len(returned.val) = Cardinality(Separators(arg)) + 1

\* The claim's own example is split as the claim says.
C1_ExampleSplitsInTwo ==
    (returned.fn = "split_parameter_pack"
        /\ arg = <<"A","<","B",",","C",">",",","D","<","E",">">>) =>
        returned.val = << <<"A","<","B",",","C",">">>, <<"D","<","E",">">> >>

(***************************************************************************)
(* C12.  Unbalanced brackets: a '>' where no '<' is open, or a '<' still   *)
(* open at the end of the input.                                           *)
(***************************************************************************)
Unbalanced(s) ==
    \/ \E i \in 1..Len(s) : s[i] = ">" /\ DepthBefore(s, i) = 0
    \/ DepthBefore(s, Len(s) + 1) > 0

\* C12: on every input with unbalanced brackets split_parameter_pack ends in
\* a ParseError and returns no sequence of arguments.
C12_UnbalancedIsParseError ==
    (returned.fn = "split_parameter_pack" /\ Unbalanced(arg)) =>
        returned.exc = "ParseError"

\* What the code does instead: it returns a sequence of at least one
\* argument for every input, balanced or not.
C12_AlwaysReturnsArguments ==
    returned.fn = "split_parameter_pack" =>
        (returned.exc = "" /\ Len(returned.val) >= 1)

C12_UnbalancedSplit ==
    /\ returned.fn = "split_parameter_pack"
    /\ arg = <<"a", ">", ",", "<">>
    /\ returned.val = << <<"a", ">", ",", "<">> >>


(***************************************************************************)
(* strip_qualifiers and apply_qualifiers.                                  *)
(***************************************************************************)
AMP == <<"&">>
STAR == <<"*">>
CONST == <<"c","o","n","s","t">>
VOLATILE == <<"v","o","l","a","t","i","l","e">>

\* next(q for q in candidates if q matches): the first candidate among the
\* matching ones, or <<>> for StopIteration (no candidate is the empty text).
FirstOf(candidates, matching) ==
    LET hits == {i \in 1..Len(candidates) : candidates[i] \in matching} IN
    IF hits = {} THEN <<>>
    ELSE candidates[CHOOSE i \in hits : \A j \in hits : i <= j]

\* The first loop: strip trailing '&', '*', 'const', 'volatile'.
RECURSIVE strip_trailing(_, _)
strip_trailing(typename, qps) ==
    LET stripped == RStrip(typename)
        qual == FirstOf(<<AMP, STAR, CONST, VOLATILE>>,
                        {q \in {AMP, STAR, CONST, VOLATILE} : EndsWith(stripped, q)})
    IN  IF qual = <<>>
        THEN [typename |-> stripped, qps |-> qps]
        ELSE strip_trailing(SubSeq(stripped, 1, Len(stripped) - Len(qual)),
                            Append(qps, qual))

\* The second loop: strip leading 'const', 'volatile'.
RECURSIVE strip_leading(_, _)
strip_leading(typename, qps) ==
    LET stripped == LStrip(typename)
        qual == FirstOf(<<CONST, VOLATILE>>,
                        {q \in {CONST, VOLATILE} : StartsWith(stripped, q)})
    IN  IF qual = <<>>
        THEN [typename |-> stripped, qps |-> qps]
        ELSE strip_leading(SubSeq(stripped, Len(qual) + 1, Len(stripped)),
                           Append(qps, qual))

strip_qualifiers(typename) ==
    LET trailing == strip_trailing(typename, <<>>)
        leading == strip_leading(trailing.typename, trailing.qps)
    IN  [typename |-> leading.typename, qps |-> Reverse(leading.qps)]

\* A gdb.Type built from a named type by pointer(), reference() and const():
\* the name and the wrappers applied to it, innermost first.  const() of a
\* const type is that type.
NamedType(name) == [name |-> name, mods |-> <<>>]

Pointer(t) == [t EXCEPT !.mods = Append(@, "*")]

Reference(t) == [t EXCEPT !.mods = Append(@, "&")]

Const(t) ==
    IF t.mods # <<>> /\ t.mods[Len(t.mods)] = "const" THEN t
    ELSE [t EXCEPT !.mods = Append(@, "const")]

RECURSIVE apply_qualifiers(_, _)
apply_qualifiers(t, qs) ==
    IF qs = <<>> THEN t
    ELSE LET q == Head(qs) IN
         apply_qualifiers(IF q = STAR THEN Pointer(t)
                          ELSE IF q = AMP THEN Reference(t)
                          ELSE IF q = CONST THEN Const(t)
                          ELSE t,
                          Tail(qs))

(***************************************************************************)
(* Type texts made of a base name, leading const/volatile and trailing     *)
(* qualifiers.  tight writes '*' and '&' without spaces around them; pad   *)
(* puts a space at both ends.                                              *)
(***************************************************************************)
INT == <<"i","n","t">>

BaseNames == {INT}

QualifierLists(tokens, n) == UNION {[1..k -> tokens] : k \in 0..n}

TypesToStrip ==
    [base : BaseNames,
     lead : QualifierLists({CONST, VOLATILE}, MaxQuals),
     trail : QualifierLists({STAR, AMP, CONST, VOLATILE}, MaxQuals),
     tight : BOOLEAN,
     pad : BOOLEAN]

IsWrapper(q) == q \in {STAR, AMP}

RECURSIVE JoinTokens(_, _)
JoinTokens(tokens, tight) ==
    IF Len(tokens) = 0 THEN <<>>
    ELSE IF Len(tokens) = 1 THEN tokens[1]
    ELSE LET glued == tight /\ (IsWrapper(tokens[1]) \/ IsWrapper(tokens[2])) IN
         tokens[1] \o (IF glued THEN <<>> ELSE <<" ">>)
                   \o JoinTokens(Tail(tokens), tight)

TypeText(type) ==
    LET body == JoinTokens(type.lead \o <<type.base>> \o type.trail, type.tight) IN
    IF type.pad THEN <<" ">> \o body \o <<" ">> ELSE body

InitQual ==
    /\ T \in TypesToStrip
    /\ arg = TypeText(T)
    /\ returned = NotCalled
    /\ pretty_printers = NoChains
    /\ stack = <<>>

CallStrip ==
    /\ returned.fn = "none"
    /\ returned' = [fn |-> "strip_qualifiers", exc |-> "", val |-> strip_qualifiers(arg)]
    /\ UNCHANGED <<pretty_printers, stack, T, arg>>

\* apply_qualifiers on the type named by the stripped base and the stripped
\* qualifiers.
CallApply ==
    /\ returned.fn = "strip_qualifiers"
    /\ returned' =
           [fn |-> "apply_qualifiers",
            exc |-> "",
            val |-> [typename |-> returned.val.typename,
                     qps |-> returned.val.qps,
                     type |-> apply_qualifiers(NamedType(returned.val.typename),
                                               returned.val.qps)]]
    /\ UNCHANGED <<pretty_printers, stack, T, arg>>

NextQual == CallStrip \/ CallApply

SpecQual == InitQual /\ [][NextQual]_vars

(***************************************************************************)
(* apply_qualifiers called on its own, with any list of tokens: those      *)
(* strip_qualifiers produces and one it does not.                          *)
(***************************************************************************)
RESTRICT == <<"r","e","s","t","r","i","c","t">>

Tokens == {STAR, AMP, CONST, VOLATILE, RESTRICT}

StartTypes == {NamedType(INT), Const(NamedType(INT)), Pointer(NamedType(INT))}

InitApply ==
    /\ T \in StartTypes
    /\ arg \in QualifierLists(Tokens, MaxTokens)
    /\ returned = NotCalled
    /\ pretty_printers = NoChains
    /\ stack = <<>>

\* apply_qualifiers(T, arg)
CallApplyTo ==
    /\ returned.fn = "none"
    /\ returned' = [fn |-> "apply_qualifiers", exc |-> "",
                    val |-> [typename |-> T.name, qps |-> arg,
                             type |-> apply_qualifiers(T, arg)]]
    /\ UNCHANGED <<pretty_printers, stack, T, arg>>

NextApply == CallApplyTo

SpecApply == InitApply /\ [][NextApply]_vars

(***************************************************************************)
(* C2.                                                                     *)
(***************************************************************************)
\* What T denotes with const/volatile removed: the base wrapped by the '*'
\* and '&' of T, in the order T writes them.
WithoutCV(type) ==
    LET wrappers == SelectSeq(type.trail, IsWrapper) IN
    [name |-> type.base, mods |-> [i \in 1..Len(wrappers) |-> wrappers[i][1]]]

\* C2: stripping then reapplying yields the base name and exactly the pointer
\* and reference wrappers of T, inner to outer, and nothing else.
C2_ReapplyGivesTypeWithoutCV ==
    returned.fn = "apply_qualifiers" =>
        /\ returned.val.typename = T.base
        /\ returned.val.type = WithoutCV(T)

\* The part of C2 the code keeps: the base name, and the order of the pointer
\* and reference wrappers.
C2_WrapperOrderKept ==
    returned.fn = "apply_qualifiers" =>
        /\ returned.val.typename = T.base
        /\ SelectSeq(returned.val.type.mods, LAMBDA m : m # "const")
               = WithoutCV(T).mods

(***************************************************************************)
(* C13.                                                                    *)
(***************************************************************************)
\* The type t wrapped by the '*' and '&' of the list qs, in order, every
\* other token deleted.
WrappedOnly(t, qs) ==
    LET wrappers == SelectSeq(qs, IsWrapper) IN
    [t EXCEPT !.mods = @ \o [i \in 1..Len(wrappers) |-> wrappers[i][1]]]

\* C13: apply_qualifiers never fails, and the type it returns is the one
\* the list gives with every token other than '*' and '&' deleted.
C13_OnlyWrappersAreApplied ==
    returned.fn = "apply_qualifiers" =>
        /\ returned.exc = ""
        /\ returned.val.type = WrappedOnly(T, returned.val.qps)

\* The part of C13 the code keeps: it never fails, 'volatile' and unknown
\* tokens do nothing, and the pointers and references are those of the
\* list, in order.
C13_WrappersInOrderOthersIgnored ==
    returned.fn = "apply_qualifiers" =>
        /\ returned.exc = ""
        /\ returned.val.type =
               apply_qualifiers(T, SelectSeq(returned.val.qps,
                                             LAMBDA q : q \in {STAR, AMP, CONST}))
        /\ SelectSeq(returned.val.type.mods, LAMBDA m : m # "const")
               = SelectSeq(WrappedOnly(T, returned.val.qps).mods,
                           LAMBDA m : m # "const")

C13_ConstApplied ==
    /\ returned.fn = "apply_qualifiers"
    /\ T = NamedType(INT)
    /\ arg = <<CONST, STAR, RESTRICT>>
    /\ returned.val.type.mods = <<"const", "*">>


(***************************************************************************)
(* The host: gdb.Type, gdb.Value and gdb.lookup_type.                      *)
(*                                                                         *)
(* A gdb.Type is a record: its kind (code), its name (a struct, an enum, a *)
(* typedef or a base type has one), its tag (<<>> is Python's None), its   *)
(* const qualifier and the type it refers to (a reference, a pointer, a    *)
(* typedef).  NoneType stands for Python's None where a type is expected.  *)
(***************************************************************************)
NONE_TEXT ==
    <<"N","o","n","e">>
CONST_PREFIX ==
    <<"c","o","n","s","t"," ">>
REF_SUFFIX ==
    <<" ","&">>
PTR_SUFFIX ==
    <<" ","*">>
CONST_SUFFIX ==
    <<" ","c","o","n","s","t">>

NoneType == [code |-> "None", name |-> NONE_TEXT, tag |-> <<>>, cv |-> FALSE, target |-> <<>>]

Struct(name) == [code |-> "STRUCT", name |-> name, tag |-> name, cv |-> FALSE, target |-> <<>>]

Enum(name) == [code |-> "ENUM", name |-> name, tag |-> name, cv |-> FALSE, target |-> <<>>]

BaseType(name) == [code |-> "INT", name |-> name, tag |-> <<>>, cv |-> FALSE, target |-> <<>>]

ConstOf(t) == [t EXCEPT !.cv = TRUE]

RefTo(t) == [code |-> "REF", name |-> <<>>, tag |-> <<>>, cv |-> FALSE, target |-> t]

PtrTo(t) == [code |-> "PTR", name |-> <<>>, tag |-> <<>>, cv |-> FALSE, target |-> t]

TypedefOf(name, t) == [code |-> "TYPEDEF", name |-> name, tag |-> <<>>, cv |-> FALSE, target |-> t]

\* str(t)
RECURSIVE Str(_)
Str(t) ==
    IF t.code = "None" THEN NONE_TEXT
    ELSE IF t.code = "REF" THEN Str(t.target) \o REF_SUFFIX
    ELSE IF t.code = "PTR"
    THEN Str(t.target) \o PTR_SUFFIX \o (IF t.cv THEN CONST_SUFFIX ELSE <<>>)
    ELSE (IF t.cv THEN CONST_PREFIX ELSE <<>>) \o t.name

\* t.target(), t.unqualified(), t.strip_typedefs()
Target(t) == t.target

Unqualified(t) == [t EXCEPT !.cv = FALSE]

RECURSIVE StripTypedefs(_)
StripTypedefs(t) == IF t.code = "TYPEDEF" THEN StripTypedefs(t.target) ELSE t

resolve_type(t) ==
    LET referred == IF t.code = "REF" THEN Target(t) ELSE t
        stripped == StripTypedefs(Unqualified(referred))
    IN  IF stripped.tag = <<>> THEN NoneType ELSE stripped

underlying_typename(val) ==
    LET t == resolve_type(val.type) IN
    IF t.code # "None" THEN Str(t) ELSE Str(val.type)

\* The outcome of a call: the exception it raised ("" for none) and what it
\* returned.
Return(v) == [exc |-> "", ret |-> v]

Raise(e) == [exc |-> e, ret |-> <<>>]

\* gdb.lookup_type(name) for the host of value val.  The host knows no type
\* of the empty name; whether it knows the nested types of a variant, and
\* what they are, is the debuggee's: val.host.
OP_STATE ==
    <<"O","p">>

lookup_type(val, name) ==
    IF name = <<>> \/ val.host = "missing" THEN Raise("gdb.error")
    ELSE IF val.host = "struct" THEN Return(Struct(name))
    ELSE IF val.host = "typedef_struct" THEN Return(TypedefOf(name, Struct(OP_STATE)))
    ELSE Return(TypedefOf(name, BaseType(INT)))

\* val[field]: a value has the fields of what it is in the debuggee.
HasField(val, field) == field \in val.fields

(***************************************************************************)
(* FutureStateTypeIDPrinter                                                *)
(***************************************************************************)
EMPTY ==
    <<"e","m","p","t","y">>
DIRECT_STORAGE ==
    <<"d","i","r","e","c","t","_","s","t","o","r","a","g","e">>
SHARED_STORAGE ==
    <<"s","h","a","r","e","d","_","s","t","o","r","a","g","e">>
INLINE_STATE ==
    <<"i","n","l","i","n","e","_","s","t","a","t","e">>
SHARED_STATE ==
    <<"s","h","a","r","e","d","_","s","t","a","t","e">>
INVALID_TYPE ==
    <<"i","n","v","a","l","i","d"," ","t","y","p","e">>

NoPrinter ==
    [cls |-> "None", value |-> <<>>, type_str |-> <<>>, maybe_empty_type |-> <<>>,
     maybe_empty_index |-> <<>>, is_empty |-> FALSE]

FutureStateTypeIDPrinter(value) ==
    [NoPrinter EXCEPT !.cls = "FutureStateTypeIDPrinter", !.value = value]

\* A mutant: the labels of 1 and 2 exchanged.
FutureStateTypeIDPrinter_to_string_swapped(self) ==
    IF ~self.value.readable THEN Raise("gdb.MemoryError")
    ELSE IF self.value.type_id = 0 THEN Return(EMPTY)
    ELSE IF self.value.type_id = 2 THEN Return(DIRECT_STORAGE)
    ELSE IF self.value.type_id = 1 THEN Return(SHARED_STORAGE)
    ELSE IF self.value.type_id = 3 THEN Return(INLINE_STATE)
    ELSE IF self.value.type_id = 4 THEN Return(SHARED_STATE)
    ELSE Return(INVALID_TYPE)

\* Comparing the value with an integer reads it from the debuggee.
FutureStateTypeIDPrinter_to_string(self) ==
    IF ~self.value.readable THEN Raise("gdb.MemoryError")
    ELSE IF self.value.type_id = 0 THEN Return(EMPTY)
    ELSE IF self.value.type_id = 1 THEN Return(DIRECT_STORAGE)
    ELSE IF self.value.type_id = 2 THEN Return(SHARED_STORAGE)
    ELSE IF self.value.type_id = 3 THEN Return(INLINE_STATE)
    ELSE IF self.value.type_id = 4 THEN Return(SHARED_STATE)
    ELSE Return(INVALID_TYPE)

(***************************************************************************)
(* MaybeEmptyPrinter                                                       *)
(***************************************************************************)
MAYBE_EMPTY_PREFIX ==
    <<"f","u","t","u","r","e","s",":",":","d","e","t","a","i","l",":",":","m","a","y","b","e","_","e","m","p","t","y">>
EMPTY_TYPE_LABEL ==
    <<"e","m","p","t","y"," ","t","y","p","e",":"," ">>
TRUE_TEXT ==
    <<"t","r","u","e">>

NoMatch == [matched |-> FALSE, groups |-> <<>>]

\* The text between prefix + '<' and a final '>', for the two regular
\* expressions, which both are ^prefix<...>$.
Bracketed(s, prefix) ==
    LET open == prefix \o <<"<">> IN
    IF StartsWith(s, open) /\ EndsWith(s, <<">">>) /\ Len(s) >= Len(open) + 1
    THEN [matched |-> TRUE, groups |-> <<SubSeq(s, Len(open) + 1, Len(s) - 1)>>]
    ELSE NoMatch

Commas(s) == {i \in 1..Len(s) : s[i] = ","}

\* A mutant: the groups taken at the first two commas (a non-greedy match).
MaybeEmptyRegex_lazy(s) ==
    LET m == Bracketed(s, MAYBE_EMPTY_PREFIX) IN
    IF ~m.matched \/ Cardinality(Commas(m.groups[1])) < 2 THEN NoMatch
    ELSE LET inner == m.groups[1]
             first == CHOOSE i \in Commas(inner) : \A j \in Commas(inner) : i <= j
             rest == Commas(inner) \ {first}
             second == CHOOSE i \in rest : \A j \in rest : i <= j
         IN  [matched |-> TRUE,
              groups |-> <<SubSeq(inner, 1, first - 1),
                           SubSeq(inner, first + 1, second - 1),
                           SubSeq(inner, second + 1, Len(inner))>>]

\* regex.search(s) for '^futures::detail::maybe_empty<(.*),(.*),(.*)>$'.  The
\* groups are greedy: the first takes all up to the last comma but one, the
\* second all up to the last comma.
MaybeEmptyRegex(s) ==
    LET m == Bracketed(s, MAYBE_EMPTY_PREFIX) IN
    IF ~m.matched \/ Cardinality(Commas(m.groups[1])) < 2 THEN NoMatch
    ELSE LET inner == m.groups[1]
             last == CHOOSE i \in Commas(inner) : \A j \in Commas(inner) : j <= i
             rest == Commas(inner) \ {last}
             before == CHOOSE i \in rest : \A j \in rest : j <= i
         IN  [matched |-> TRUE,
              groups |-> <<SubSeq(inner, 1, before - 1),
                           SubSeq(inner, before + 1, last - 1),
                           SubSeq(inner, last + 1, Len(inner))>>]

\* MaybeEmptyPrinter(value): __init__ raises when the expression does not
\* match (m is None).
MaybeEmptyPrinter(value) ==
    LET type_str == underlying_typename(value)
        m == MaybeEmptyRegex(type_str)
    IN  IF ~m.matched THEN Raise("AttributeError")
        ELSE Return([cls |-> "MaybeEmptyPrinter",
                     value |-> value,
                     type_str |-> type_str,
                     maybe_empty_type |-> m.groups[1],
                     maybe_empty_index |-> m.groups[2],
                     is_empty |-> Find(m.groups[3], TRUE_TEXT) # -1])

MaybeEmptyPrinter_to_string(self) ==
    IF self.is_empty THEN Return(EMPTY_TYPE_LABEL \o self.maybe_empty_type)
    ELSE Return(self.maybe_empty_type)

\* A child of a printer: its name and its value.  A value is the debuggee's
\* (view: the storage at an address seen as a type; field: a member of the
\* printed value; pointer: an address) or Python's True.
Child(name, kind, type, n) == [name |-> name, kind |-> kind, type |-> type, n |-> n]

\* The generator of children(): pos counts the values it has yielded, done
\* is set when it is exhausted and exc when it raised.
NewGenerator == [pos |-> 0, done |-> FALSE, exc |-> ""]

Yield(gen, child) ==
    [gen |-> [gen EXCEPT !.pos = @ + 1], yielded |-> <<child>>, asked |-> <<>>]

StopIteration(gen) ==
    [gen |-> [gen EXCEPT !.done = TRUE], yielded |-> <<>>, asked |-> <<>>]

Throw(gen, exc, asked) ==
    [gen |-> [gen EXCEPT !.done = TRUE, !.exc = exc], yielded |-> <<>>, asked |-> asked]

VALUE_ ==
    <<"v","a","l","u","e","_">>

\* next() on the generator of MaybeEmptyPrinter.children
MaybeEmptyPrinter_children(self, gen) ==
    IF gen.pos = 0
    THEN IF ~self.is_empty
         THEN IF HasField(self.value, "value_")
              THEN Yield(gen, Child(self.maybe_empty_type, "field", VALUE_, 0))
              ELSE Throw(gen, "gdb.error", <<>>)
         ELSE Yield(gen, Child(EMPTY, "True", <<>>, 1))
    ELSE StopIteration(gen)


(***************************************************************************)
(* FutureStatePrinter                                                      *)
(***************************************************************************)
FUTURE_STATE_PREFIX ==
    <<"f","u","t","u","r","e","s",":",":","d","e","t","a","i","l",":",":","f","u","t","u","r","e","_","s","t","a","t","e">>
EMPTY_T ==
    <<":",":","e","m","p","t","y","_","t">>
OPERATION_STORAGE_T ==
    <<":",":","o","p","e","r","a","t","i","o","n","_","s","t","o","r","a","g","e","_","t">>
SHARED_STORAGE_T ==
    <<":",":","s","h","a","r","e","d","_","s","t","o","r","a","g","e","_","t">>
OPERATION_STATE_T ==
    <<":",":","o","p","e","r","a","t","i","o","n","_","s","t","a","t","e","_","t">>
SHARED_STATE_T ==
    <<":",":","s","h","a","r","e","d","_","s","t","a","t","e","_","t">>
TO_STRING_FORMAT ==
    <<"(","f","u","t","u","r","e","s",":",":","d","e","t","a","i","l",":",":","f","u","t","u","r","e","_","s","t","a","t","e","<",".",".",".",">",")"," ","t","y","p","e"," ","="," ">>
SCOPE ==
    <<":",":">>
WHICH ==
    <<"w","h","i","c","h">>
ADDRESS ==
    <<"a","d","d","r","e","s","s">>
TYPE_ID_ ==
    <<"t","y","p","e","_","i","d","_">>

FutureStatePrinter(value) ==
    [NoPrinter EXCEPT !.cls = "FutureStatePrinter", !.value = value]

\* regex.search(s) for '^futures::detail::future_state<(.*)>$'
FutureStateRegex(s) == Bracketed(s, FUTURE_STATE_PREFIX)

\* A mutant: the suffixes of 1 and 3 exchanged.
stored_type_name_swapped(typename, type_index) ==
    IF type_index = 0 THEN typename \o EMPTY_T
    ELSE IF type_index = 1 THEN typename \o OPERATION_STATE_T
    ELSE IF type_index = 2 THEN typename \o SHARED_STORAGE_T
    ELSE IF type_index = 3 THEN typename \o OPERATION_STORAGE_T
    ELSE IF type_index = 4 THEN typename \o SHARED_STATE_T
    ELSE <<>>

\* "Get current type name": '' unless type_index is one of 0..4.
stored_type_name(typename, type_index) ==
    IF type_index = 0 THEN typename \o EMPTY_T
    ELSE IF type_index = 1 THEN typename \o OPERATION_STORAGE_T
    ELSE IF type_index = 2 THEN typename \o SHARED_STORAGE_T
    ELSE IF type_index = 3 THEN typename \o OPERATION_STATE_T
    ELSE IF type_index = 4 THEN typename \o SHARED_STATE_T
    ELSE <<>>

\* The outcome of get_variant_type and the names it asked gdb.lookup_type for.
Failed(exc) == [exc |-> exc, ret |-> NoneType, asked |-> <<>>]

get_variant_type(self) ==
    IF ~HasField(self.value, "type_id_") THEN Failed("gdb.error")
    ELSE IF ~self.value.readable THEN Failed("gdb.MemoryError")
    ELSE LET type_index == self.value.type_id IN
         IF ~(type_index >= 0) THEN Failed("AssertionError")
         ELSE LET m == FutureStateRegex(underlying_typename(self.value)) IN
              IF ~m.matched THEN Failed("AttributeError")
              ELSE IF Len(split_parameter_pack(m.groups[1])) # 2 THEN Failed("ValueError")
              ELSE LET name == stored_type_name(underlying_typename(self.value),
                                                type_index)
                       found == lookup_type(self.value, name)
                   IN  [exc |-> found.exc,
                        ret |-> IF found.exc = "" THEN found.ret ELSE NoneType,
                        asked |-> <<name>>]

\* A mutant: the looked-up type is formatted as it is, without resolve_type.
FutureStatePrinter_to_string_unresolved(self) ==
    LET resolved_type == get_variant_type(self) IN
    IF resolved_type.exc # ""
    THEN [exc |-> resolved_type.exc, ret |-> <<>>, asked |-> resolved_type.asked]
    ELSE [exc |-> "",
          ret |-> TO_STRING_FORMAT \o Str(resolved_type.ret),
          asked |-> resolved_type.asked]

\* The outcome of to_string and the names asked of the host on the way.
FutureStatePrinter_to_string(self) ==
    LET resolved_type == get_variant_type(self) IN
    IF resolved_type.exc # ""
    THEN [exc |-> resolved_type.exc, ret |-> <<>>, asked |-> resolved_type.asked]
    ELSE [exc |-> "",
          ret |-> TO_STRING_FORMAT \o Str(resolve_type(resolved_type.ret)),
          asked |-> resolved_type.asked]

\* r = str(resolved_type); pos = r.rfind('::'); if pos != -1: r = r[pos+2:]
TrailingSegment(r) ==
    LET pos == RFind(r, SCOPE) IN
    IF pos # -1 THEN SubSeq(r, pos + 2 + 1, Len(r)) ELSE r

\* reinterpret_cast(self.value['data_']['data_'], target_type): the storage,
\* at its own address, seen as target_type.  The address of a value that is
\* not in memory is None, which has no cast.
reinterpret_cast(value, target_type) ==
    IF ~value.addressable THEN Raise("AttributeError")
    ELSE Return([address |-> value.storage, type |-> Str(target_type)])

\* 'address', self.value['data_']['data_'].address
AddressChild(value) ==
    IF value.addressable THEN Child(ADDRESS, "pointer", <<>>, value.storage)
    ELSE Child(ADDRESS, "None", <<>>, 0)

\* next() on the generator of FutureStatePrinter.children.
FutureStatePrinter_children(self, gen) ==
    IF gen.pos = 0
    THEN LET resolved_type == get_variant_type(self)
             stored_value == reinterpret_cast(self.value, resolved_type.ret)
         IN  IF resolved_type.exc # ""
             THEN Throw(gen, resolved_type.exc, resolved_type.asked)
             ELSE IF stored_value.exc # ""
             THEN Throw(gen, stored_value.exc, resolved_type.asked)
             ELSE [Yield(gen, Child(TrailingSegment(Str(resolved_type.ret)), "view",
                                    stored_value.ret.type, stored_value.ret.address))
                      EXCEPT !.asked = resolved_type.asked]
    ELSE IF gen.pos = 1
    THEN Yield(gen, Child(WHICH, "field", TYPE_ID_, self.value.type_id))
    ELSE IF gen.pos = 2
    THEN Yield(gen, AddressChild(self.value))
    ELSE StopIteration(gen)

(***************************************************************************)
(* lookup_function and register_futures_printers                           *)
(***************************************************************************)
TYPE_ID_SUFFIX ==
    <<":",":","t","y","p","e","_","i","d">>

lookup_function(val) ==
    LET t == underlying_typename(val) IN
    IF StartsWith(t, FUTURE_STATE_PREFIX)
    THEN IF EndsWith(t, TYPE_ID_SUFFIX)
         THEN Return(FutureStateTypeIDPrinter(val))
         ELSE Return(FutureStatePrinter(val))
    ELSE IF StartsWith(t, MAYBE_EMPTY_PREFIX) THEN MaybeEmptyPrinter(val)
    ELSE Return(NoPrinter)

\* A mutant: the function is put in front of the chain.
register_futures_printers_in_front(chains, obj) ==
    LET handle == IF obj = "None" THEN "gdb" ELSE obj IN
    [chains EXCEPT ![handle] = <<"lookup_function">> \o @]

\* The chains after register_futures_printers(obj).
register_futures_printers(chains, obj) ==
    LET handle == IF obj = "None" THEN "gdb" ELSE obj IN
    [chains EXCEPT ![handle] = Append(@, "lookup_function")]


(***************************************************************************)
(* The values of the debuggee the host may be asked to print.  A value is  *)
(* its type, the members it has, its discriminant (member type_id_ of a    *)
(* variant, or the value itself when it is a type_id), whether its memory  *)
(* can be read, whether it lies in the debuggee's memory (a value that     *)
(* does not, such as the result of a call, has the address None), what the *)
(* host knows of the variant's nested types, and the address of its raw    *)
(* storage (member data_.data_).                                           *)
(***************************************************************************)
STATE_T ==
    <<"s","t","a","t","e","_","t">>
FUTURE_STATE_BASE ==
    <<"f","u","t","u","r","e","s",":",":","d","e","t","a","i","l",":",":","f","u","t","u","r","e","_","s","t","a","t","e","_","b","a","s","e">>

Discriminants == (0 - DiscSpan)..(4 + DiscSpan)

HostKinds == {"missing", "struct", "typedef_struct", "typedef_int"}

VariantArgs ==
    { <<"a",","," ","b">>,
      <<"a",",","b">>,
      <<"a","<","b",","," ","c",">",","," ","d","<","e",">">>,
      <<"x",":",":","y",","," ","z">> }

FutureStateName(args) == FUTURE_STATE_PREFIX \o <<"<">> \o args \o <<">">>

VariantTypes ==
    UNION {{Struct(FutureStateName(a)),
            ConstOf(Struct(FutureStateName(a))),
            RefTo(ConstOf(Struct(FutureStateName(a)))),
            TypedefOf(STATE_T, Struct(FutureStateName(a)))} : a \in VariantArgs}

VariantValues ==
    [type : VariantTypes, fields : {{"type_id_", "data_"}}, type_id : Discriminants,
     readable : BOOLEAN, addressable : BOOLEAN, host : HostKinds, storage : {4096}]

\* Pointers to a variant: val[field] follows the pointer.
VariantPointerValues ==
    [type : {PtrTo(Struct(FutureStateName(<<"a",","," ","b">>)))},
     fields : {{"type_id_", "data_"}}, type_id : Discriminants,
     readable : BOOLEAN, addressable : BOOLEAN, host : HostKinds, storage : {4096}]

\* A variant whose result type is a pointer to a function: the commas of
\* the function's parameters are inside no '<'.
FUNCTION_RESULT_ARGS ==
    <<"a"," ","(","*",")","(","b",","," ","c",")",","," ","d">>

FunctionResultValues ==
    [type : {Struct(FutureStateName(FUNCTION_RESULT_ARGS))},
     fields : {{"type_id_", "data_"}}, type_id : {0, 3},
     readable : {TRUE}, addressable : {TRUE}, host : {"struct"}, storage : {4096}]

TypeIdTypes ==
    UNION {{Enum(FutureStateName(a) \o TYPE_ID_SUFFIX),
            ConstOf(Enum(FutureStateName(a) \o TYPE_ID_SUFFIX))} :
           a \in {<<"a",","," ","b">>, <<"x",":",":","y",","," ","z">>}}

TypeIdValues ==
    [type : TypeIdTypes, fields : {{}}, type_id : Discriminants,
     readable : BOOLEAN, addressable : {TRUE}, host : {"missing"}, storage : {4096}]

\* maybe_empty<W,I,B>
Wrapped ==
    { <<"a">>,
      <<"a","<","b",","," ","c",">">>,
      <<"t","<","t","r","u","e",",","1",">">> }

Indexes == { <<" ","0">>, <<"1">> }

Flags ==
    { <<" ","f","a","l","s","e">>, <<"f","a","l","s","e">>,
      <<" ","t","r","u","e">>, <<"t","r","u","e">> }

MaybeEmptyName(W, I, B) ==
    MAYBE_EMPTY_PREFIX \o <<"<">> \o W \o <<",">> \o I \o <<",">> \o B \o <<">">>

\* The member value_ is there unless the wrapped type is the empty base.
MaybeEmptyValue(type, B) ==
    [type |-> type,
     fields |-> IF Occurrences(B, TRUE_TEXT) = {} THEN {"value_"} ELSE {},
     type_id |-> 0, readable |-> TRUE, addressable |-> TRUE, host |-> "missing",
     storage |-> 4096]

MaybeEmptyValues ==
    UNION {{MaybeEmptyValue(Struct(MaybeEmptyName(W, I, B)), B),
            MaybeEmptyValue(RefTo(Struct(MaybeEmptyName(W, I, B))), B)} :
           <<W, I, B>> \in Wrapped \X Indexes \X Flags}

\* Pointers to a maybe_empty, such as this in its member functions.
MaybeEmptyPointerValues ==
    { MaybeEmptyValue(PtrTo(Struct(MaybeEmptyName(<<"a">>, <<" ","0">>, B))), B) :
        B \in Flags }
    \cup
    { MaybeEmptyValue(ConstOf(PtrTo(Struct(MaybeEmptyName(<<"a">>, <<" ","0">>, B)))), B) :
        B \in Flags }

OtherTypes ==
    { BaseType(INT),
      RefTo(BaseType(INT)),
      Struct(<<"s","t","d",":",":","x">>),
      Struct(FUTURE_STATE_BASE),
      Struct(FutureStateName(<<"a",","," ","b">>) \o OPERATION_STATE_T),
      TypedefOf(STATE_T, BaseType(INT)) }

OtherValues ==
    [type : OtherTypes, fields : {{}}, type_id : {0},
     readable : {TRUE}, addressable : {TRUE}, host : {"missing"}, storage : {4096}]

Values ==
    VariantValues \cup VariantPointerValues \cup FunctionResultValues \cup TypeIdValues
        \cup MaybeEmptyValues \cup MaybeEmptyPointerValues \cup OtherValues

\* The values of the sessions in which print requests nest: a variant, its
\* discriminant, a maybe_empty and an int.
SessionValues ==
    { v \in Values :
        /\ v.readable
        /\ v.addressable
        /\ \/ /\ v.type = Struct(FutureStateName(<<"a",","," ","b">>))
              /\ v.type_id = 3
              /\ v.host = "struct"
           \/ /\ v.type = Enum(FutureStateName(<<"a",","," ","b">>) \o TYPE_ID_SUFFIX)
              /\ v.type_id = 3
           \/ v.type = Struct(MaybeEmptyName(<<"a">>, <<" ","0">>,
                                             <<" ","f","a","l","s","e">>))
           \/ v.type = BaseType(INT) }

(***************************************************************************)
(* A print request: the host calls lookup_function on a value and, when it *)
(* gets a printer, to_string and children, whose generator it steps; for   *)
(* each child yielded it may start a print request of the child's value.   *)
(***************************************************************************)
Unsaid == [called |-> FALSE, exc |-> "", ret |-> <<>>]

\* A frame: the value, the outcome of lookup_function, the outcome of
\* to_string, the generator of children, the children yielded so far, and
\* the type names the printer asked the host for.
NewFrame(v) ==
    [value |-> v, printer |-> lookup_function(v), said |-> Unsaid,
     gen |-> NewGenerator, yielded |-> <<>>, asked |-> <<>>]

Top == stack[Len(stack)]

HasPrinter(frame) == frame.printer.exc = "" /\ frame.printer.ret.cls # "None"

HasChildren(frame) ==
    /\ HasPrinter(frame)
    /\ frame.printer.ret.cls \in {"MaybeEmptyPrinter", "FutureStatePrinter"}

Registered == \E h \in Handles : \E i \in 1..Len(pretty_printers[h]) :
                  pretty_printers[h][i] = "lookup_function"

to_string(self) ==
    IF self.cls = "FutureStateTypeIDPrinter"
    THEN FutureStateTypeIDPrinter_to_string(self) @@ [asked |-> <<>>]
    ELSE IF self.cls = "MaybeEmptyPrinter"
    THEN MaybeEmptyPrinter_to_string(self) @@ [asked |-> <<>>]
    ELSE FutureStatePrinter_to_string(self)

children(self, gen) ==
    IF self.cls = "MaybeEmptyPrinter" THEN MaybeEmptyPrinter_children(self, gen)
    ELSE FutureStatePrinter_children(self, gen)

Register(obj) ==
    /\ stack = <<>>
    /\ Len(pretty_printers[IF obj = "None" THEN "gdb" ELSE obj]) < MaxChain
    /\ pretty_printers' = register_futures_printers(pretty_printers, obj)
    /\ arg' = obj
    /\ UNCHANGED <<stack, T, returned>>

\* The host asks for a value among values to be printed, when fewer than
\* depth requests are in progress.
PrintRequest(values, depth) ==
    /\ Registered
    /\ Len(stack) < depth
    /\ stack # <<>> => (Top.gen.pos > 0 /\ ~Top.gen.done)
    /\ \E v \in values : stack' = Append(stack, NewFrame(v))
    /\ UNCHANGED <<pretty_printers, T, arg, returned>>

CallToString ==
    /\ stack # <<>>
    /\ HasPrinter(Top)
    /\ ~Top.said.called
    /\ LET out == to_string(Top.printer.ret) IN
       stack' = [stack EXCEPT ![Len(stack)] =
                    [@ EXCEPT !.said = [called |-> TRUE, exc |-> out.exc, ret |-> out.ret],
                              !.asked = @ \o out.asked]]
    /\ UNCHANGED <<pretty_printers, T, arg, returned>>

NextChild ==
    /\ stack # <<>>
    /\ HasChildren(Top)
    /\ ~Top.gen.done
    /\ LET out == children(Top.printer.ret, Top.gen) IN
       stack' = [stack EXCEPT ![Len(stack)] =
                    [@ EXCEPT !.gen = out.gen,
                              !.yielded = @ \o out.yielded,
                              !.asked = @ \o out.asked]]
    /\ UNCHANGED <<pretty_printers, T, arg, returned>>

\* The request ends: there was no printer, or its methods have run.
Finish ==
    /\ stack # <<>>
    /\ \/ ~HasPrinter(Top)
       \/ Top.said.called /\ (HasChildren(Top) => Top.gen.done)
    /\ stack' = SubSeq(stack, 1, Len(stack) - 1)
    /\ UNCHANGED <<pretty_printers, T, arg, returned>>

OTHER_PRINTER == "other_lookup_function"

\* Another library has registered a printer with gdb itself.
Init ==
    /\ pretty_printers = [NoChains EXCEPT !["gdb"] = <<OTHER_PRINTER>>]
    /\ stack = <<>>
    /\ T = NoType
    /\ arg = <<>>
    /\ returned = NotCalled

Next ==
    \/ \E obj \in {"None"} \cup Handles : Register(obj)
    \/ PrintRequest(SessionValues, MaxDepth)
    \/ CallToString
    \/ NextChild
    \/ Finish

Spec == Init /\ [][Next]_vars

InitPrint ==
    /\ pretty_printers = register_futures_printers(NoChains, "None")
    /\ stack = <<>>
    /\ T = NoType
    /\ arg = <<>>
    /\ returned = NotCalled

NextPrint ==
    \/ PrintRequest(Values, 1)
    \/ CallToString
    \/ NextChild
    \/ Finish

SpecPrint == InitPrint /\ [][NextPrint]_vars


(***************************************************************************)
(* What the claims say of the printers, in the claims' own terms.          *)
(***************************************************************************)
Frames == {stack[i] : i \in 1..Len(stack)}

\* The text of the type beneath references and typedefs.
RECURSIVE UnderlyingText(_)
UnderlyingText(t) ==
    IF t.code \in {"REF", "TYPEDEF"} THEN UnderlyingText(t.target) ELSE t.name

\* A variant: a value of type future_state<R, Op>, however declared, whose
\* type text has the two arguments at depth 0.  (The values whose text does
\* not are the matter of C14.)
IsVariant(v) == v.type \in VariantTypes

InDomain(d) == d \in 0..4

ClaimSuffixes ==
    << <<"e","m","p","t","y","_","t">>,
       <<"o","p","e","r","a","t","i","o","n","_","s","t","o","r","a","g","e","_","t">>,
       <<"s","h","a","r","e","d","_","s","t","o","r","a","g","e","_","t">>,
       <<"o","p","e","r","a","t","i","o","n","_","s","t","a","t","e","_","t">>,
       <<"s","h","a","r","e","d","_","s","t","a","t","e","_","t">> >>

ClaimLabels ==
    << <<"e","m","p","t","y">>,
       <<"d","i","r","e","c","t","_","s","t","o","r","a","g","e">>,
       <<"s","h","a","r","e","d","_","s","t","o","r","a","g","e">>,
       <<"i","n","l","i","n","e","_","s","t","a","t","e">>,
       <<"s","h","a","r","e","d","_","s","t","a","t","e">> >>

ClaimInvalid ==
    <<"i","n","v","a","l","i","d"," ","t","y","p","e">>

ComposedName(v) ==
    UnderlyingText(v.type) \o <<":",":">> \o ClaimSuffixes[v.type_id + 1]

Started(f) == f.gen.pos > 0 \/ f.gen.done

\* C3: for a variant with a discriminant in 0..4, every name the printer
\* asks the host to look up is the variant's type text, "::" and the suffix
\* of the discriminant, and once the discriminant is read it does ask.
C3_ComposedNameIsLookedUp ==
    \A f \in Frames :
        (IsVariant(f.value) /\ InDomain(f.value.type_id)) =>
            /\ \A k \in 1..Len(f.asked) : f.asked[k] = ComposedName(f.value)
            /\ (f.value.readable /\ (f.said.called \/ Started(f))) => f.asked # <<>>

C3_Witness ==
    \E f \in Frames :
        /\ f.value.type = TypedefOf(STATE_T, Struct(FutureStateName(<<"a",","," ","b">>)))
        /\ f.value.type_id = 3
        /\ f.said.called
        /\ f.asked = <<FutureStateName(<<"a",","," ","b">>) \o <<":",":">>
                         \o <<"o","p","e","r","a","t","i","o","n","_","s","t","a","t","e","_","t">> >>

\* C4: for a variant with a discriminant outside 0..4, to_string returns
\* "invalid type" and children neither raises nor yields anything.
C4_OutOfDomainFallsBack ==
    \A f \in Frames :
        (IsVariant(f.value) /\ f.value.readable /\ ~InDomain(f.value.type_id)) =>
            /\ f.said.called => (f.said.exc = "" /\ f.said.ret = ClaimInvalid)
            /\ f.gen.exc = ""
            /\ f.yielded = <<>>

\* The three children of a variant with a discriminant in 0..4.
ThreeChildren(v) ==
    << Child(ClaimSuffixes[v.type_id + 1], "view", ComposedName(v), v.storage),
       Child(<<"w","h","i","c","h">>, "field",
             <<"t","y","p","e","_","i","d","_">>, v.type_id),
       Child(<<"a","d","d","r","e","s","s">>, "pointer", <<>>, v.storage) >>

Resolves(v) == IsVariant(v) /\ v.readable /\ InDomain(v.type_id) /\ v.host # "missing"

\* C5: when the concrete type resolves, children yields the stored value
\* (named by the last segment of the concrete type name), then "which", then
\* "address": what it has yielded is always the start of this list, it does
\* not raise, and it is exhausted after exactly these three.
C5_ThreeChildrenInOrder ==
    \A f \in Frames :
        (HasPrinter(f) /\ f.printer.ret.cls = "FutureStatePrinter") =>
            /\ f.gen.pos > 0 =>
                   /\ Resolves(f.value)
                   /\ f.gen.pos <= 3
                   /\ f.yielded = SubSeq(ThreeChildren(f.value), 1, f.gen.pos)
            /\ (Resolves(f.value) /\ f.gen.done) =>
                   (f.gen.exc = "" /\ f.yielded = ThreeChildren(f.value))

\* The part of C5 the code keeps: the three children, in order, of a variant
\* that lies in the debuggee's memory, and never a child out of order.
C5_ThreeChildrenWhenAddressable ==
    \A f \in Frames :
        (HasPrinter(f) /\ f.printer.ret.cls = "FutureStatePrinter") =>
            /\ f.gen.pos > 0 =>
                   /\ Resolves(f.value)
                   /\ f.gen.pos <= 3
                   /\ f.yielded = SubSeq(ThreeChildren(f.value), 1, f.gen.pos)
            /\ (Resolves(f.value) /\ f.value.addressable /\ f.gen.done) =>
                   (f.gen.exc = "" /\ f.yielded = ThreeChildren(f.value))

C5_ThreeChildrenReached ==
    \E f \in Frames :
        /\ HasPrinter(f) /\ f.printer.ret.cls = "FutureStatePrinter"
        /\ f.value.type_id = 3
        /\ f.gen.done
        /\ Len(f.yielded) = 3

\* The arguments of maybe_empty<W,I,B>, split at depth 0.
MaybeEmptyArgs(v) ==
    LET text == UnderlyingText(v.type) IN
    DepthZeroSplit(SubSeq(text, Len(MAYBE_EMPTY_PREFIX) + 2, Len(text) - 1))

SaysEmpty(B) == Occurrences(B, <<"t","r","u","e">>) # {}

OneChild(v) ==
    LET args == MaybeEmptyArgs(v) IN
    IF SaysEmpty(args[3])
    THEN <<Child(<<"e","m","p","t","y">>, "True", <<>>, 1)>>
    ELSE <<Child(args[1], "field", <<"v","a","l","u","e","_">>, 0)>>

\* C6: for a value of type maybe_empty<W,I,B>, W being the first depth-0
\* argument: to_string returns W, or "empty type: " + W when B contains
\* "true", and children yields exactly one pair, (W, value_) or
\* ("empty", True).
C6_MaybeEmptyShowsWrappedType ==
    \A f \in Frames :
        f.value \in MaybeEmptyValues =>
            LET args == MaybeEmptyArgs(f.value) IN
            /\ Len(args) = 3
            /\ HasPrinter(f) /\ f.printer.ret.cls = "MaybeEmptyPrinter"
            /\ f.said.called =>
                   /\ f.said.exc = ""
                   /\ f.said.ret =
                          IF SaysEmpty(args[3])
                          THEN <<"e","m","p","t","y"," ","t","y","p","e",":"," ">> \o args[1]
                          ELSE args[1]
            /\ f.gen.exc = ""
            /\ f.yielded = SubSeq(OneChild(f.value), 1, f.gen.pos)
            /\ f.gen.done => f.yielded = OneChild(f.value)

C6_Witness ==
    \E f \in Frames :
        /\ f.value \in MaybeEmptyValues
        /\ MaybeEmptyArgs(f.value)[1] = <<"a","<","b",","," ","c",">">>
        /\ f.said.called /\ f.said.ret = <<"a","<","b",","," ","c",">">>
        /\ f.gen.done /\ Len(f.yielded) = 1

C6_WitnessEmpty ==
    \E f \in Frames :
        /\ f.value \in MaybeEmptyValues
        /\ f.said.called /\ StartsWith(f.said.ret, EMPTY_TYPE_LABEL)
        /\ f.gen.done /\ Len(f.yielded) = 1 /\ f.yielded[1].kind = "True"

\* The class the claim's order of tests gives for a type text.
RoutedTo(t) ==
    IF StartsWith(t, FUTURE_STATE_PREFIX)
    THEN IF EndsWith(t, TYPE_ID_SUFFIX) THEN "FutureStateTypeIDPrinter"
         ELSE "FutureStatePrinter"
    ELSE IF StartsWith(t, MAYBE_EMPTY_PREFIX) THEN "MaybeEmptyPrinter"
    ELSE "None"

\* C7: lookup_function returns the printer of the class its order of tests
\* gives, and None for every other type text.
C7_LookupReturnsRoutedPrinter ==
    \A f \in Frames :
        /\ f.printer.exc = ""
        /\ f.printer.ret.cls = RoutedTo(underlying_typename(f.value))

\* The part of C7 the code keeps: the routing, when lookup_function returns.
C7_RoutedUnlessConstructorRaises ==
    \A f \in Frames :
        IF f.printer.exc = ""
        THEN f.printer.ret.cls = RoutedTo(underlying_typename(f.value))
        ELSE /\ RoutedTo(underlying_typename(f.value)) = "MaybeEmptyPrinter"
             /\ ~MaybeEmptyRegex(underlying_typename(f.value)).matched

\* C8: when the host does not know the composed type, or the discriminant
\* cannot be read, neither to_string nor children raises.
C8_HostFailureIsContained ==
    \A f \in Frames :
        (IsVariant(f.value) /\ InDomain(f.value.type_id)
            /\ (f.value.host = "missing" \/ ~f.value.readable)) =>
            (f.said.exc = "" /\ f.gen.exc = "")

\* C9: a step changes the chains only by a registration, made while nothing
\* is being printed, which appends lookup_function to the end of the chain
\* of its handle (gdb's own for None) and leaves the rest as it was; a step
\* of a print request, nested or not, changes no chain.
C9_ChainsChangeOnlyByAppend ==
    [][pretty_printers' # pretty_printers =>
          /\ stack = <<>> /\ stack' = <<>>
          /\ LET handle == IF arg' = "None" THEN "gdb" ELSE arg' IN
             pretty_printers' =
                 [pretty_printers EXCEPT ![handle] = Append(@, "lookup_function")]]_vars

\* Two registrations on one handle have left two entries, and a nested
\* print request is in progress.
C9_Witness ==
    /\ \E h \in Handles : pretty_printers[h] = <<"lookup_function", "lookup_function">>
    /\ \E h \in Handles : pretty_printers[h] = <<OTHER_PRINTER, "lookup_function">>
    /\ Len(stack) = 2

\* C10: the label of a discriminant that has been read is that of the table
\* for 0..4 and "invalid type" for every other integer, and to_string does
\* not raise.
C10_LabelOfDiscriminant ==
    \A f \in Frames :
        (HasPrinter(f) /\ f.printer.ret.cls = "FutureStateTypeIDPrinter"
            /\ f.said.called /\ f.value.readable) =>
            /\ f.said.exc = ""
            /\ f.said.ret = IF InDomain(f.value.type_id)
                            THEN ClaimLabels[f.value.type_id + 1]
                            ELSE ClaimInvalid

C10_Witness ==
    \E f \in Frames :
        /\ HasPrinter(f) /\ f.printer.ret.cls = "FutureStateTypeIDPrinter"
        /\ f.value.type_id < 0
        /\ f.said.called /\ f.said.ret = ClaimInvalid

\* to_string has answered for a variant whose discriminant is in 0..4 and
\* whose concrete type the host resolves.
SaidOfResolved(f) ==
    /\ HasPrinter(f) /\ f.printer.ret.cls = "FutureStatePrinter"
    /\ Resolves(f.value)
    /\ f.said.called

ClaimFormat ==
    <<"(","f","u","t","u","r","e","s",":",":","d","e","t","a","i","l",":",":","f","u","t","u","r","e","_","s","t","a","t","e","<",".",".",".",">",")"," ","t","y","p","e"," ","="," ">>

\* What the host's type of the composed name is called once its typedefs
\* are stripped: the composed name itself for a struct of that name, the
\* name of the struct a typedef stands for, and "None" for a typedef of a
\* type without a tag.
StrippedText(v) ==
    IF v.host = "struct" THEN ComposedName(v)
    ELSE IF v.host = "typedef_struct" THEN <<"O","p">>
    ELSE <<"N","o","n","e">>

\* C11, as stated: for a variant whose discriminant is in 0..4 and whose
\* concrete type resolves, to_string returns the composed concrete type
\* name.
C11_ToStringReturnsComposedName ==
    \A f \in Frames :
        SaidOfResolved(f) => (f.said.exc = "" /\ f.said.ret = ComposedName(f.value))

\* C11, amended: for such a variant to_string does not raise and returns the
\* fixed text "(futures::detail::future_state<...>) type = " followed by the
\* name of the resolved type with its typedefs stripped, which is the
\* composed name when the host has a struct of that name.
C11_ToStringLabelsStrippedType ==
    \A f \in Frames :
        SaidOfResolved(f) =>
            (f.said.exc = "" /\ f.said.ret = ClaimFormat \o StrippedText(f.value))

C11_Witness ==
    \E f \in Frames :
        /\ SaidOfResolved(f)
        /\ f.value.host = "typedef_struct"
        /\ f.value.type_id = 3
        /\ f.said.ret = ClaimFormat \o <<"O","p">>

C11_WitnessStruct ==
    \E f \in Frames :
        /\ SaidOfResolved(f)
        /\ f.value.host = "struct"
        /\ f.value.type_id = 3
        /\ f.said.ret = ClaimFormat \o ComposedName(f.value)

(***************************************************************************)
(* C14.  The type texts lookup_function routes, and whether the printer    *)
(* routed to can parse them.                                               *)
(***************************************************************************)
\* The text between prefix + "<" and a closing ">" at the very end, if the
\* text is of that form.
IsTemplateOf(t, prefix) ==
    /\ Len(t) >= Len(prefix) + 2
    /\ SubSeq(t, 1, Len(prefix)) = prefix
    /\ t[Len(prefix) + 1] = "<"
    /\ t[Len(t)] = ">"

TemplateArgs(t, prefix) == SubSeq(t, Len(prefix) + 2, Len(t) - 1)

\* t fully matches ^futures::detail::future_state<(.*)>$ and the contents
\* of the brackets are two arguments at depth 0.
ParsesAsFutureState(t) ==
    /\ IsTemplateOf(t, FUTURE_STATE_PREFIX)
    /\ Cardinality(Separators(TemplateArgs(t, FUTURE_STATE_PREFIX))) = 1

\* t fully matches ^futures::detail::maybe_empty<(.*),(.*),(.*)>$
ParsesAsMaybeEmpty(t) ==
    /\ IsTemplateOf(t, MAYBE_EMPTY_PREFIX)
    /\ Count(TemplateArgs(t, MAYBE_EMPTY_PREFIX), ",",
             Len(TemplateArgs(t, MAYBE_EMPTY_PREFIX))) >= 2

ParseFailures == {"AttributeError", "ValueError"}

\* C14: every type text routed to FutureStatePrinter or MaybeEmptyPrinter is
\* one that printer parses, so that neither the construction of a
\* MaybeEmptyPrinter nor get_variant_type (which to_string calls first)
\* ends in the AttributeError of a failed match or the ValueError of an
\* unpacking of the wrong length.
C14_RoutedTextsParse ==
    \A f \in Frames :
        LET t == underlying_typename(f.value) IN
        /\ RoutedTo(t) = "FutureStatePrinter" => ParsesAsFutureState(t)
        /\ RoutedTo(t) = "MaybeEmptyPrinter" => ParsesAsMaybeEmpty(t)
        /\ f.printer.exc \notin ParseFailures
        /\ f.said.exc \notin ParseFailures

\* What holds instead: the printers parse the texts of the variants and of
\* the maybe_empty values themselves, and a parse failure is that of a text
\* which shares the prefix without being of the printer's form.
C14_FailuresAreOfOtherTexts ==
    \A f \in Frames :
        LET t == underlying_typename(f.value) IN
        /\ (IsVariant(f.value) \/ f.value \in MaybeEmptyValues) =>
               /\ f.printer.exc = ""
               /\ f.said.exc \notin ParseFailures
        /\ f.printer.exc \in ParseFailures =>
               (RoutedTo(t) = "MaybeEmptyPrinter" /\ ~ParsesAsMaybeEmpty(t))
        /\ f.said.exc \in ParseFailures =>
               (RoutedTo(t) = "FutureStatePrinter" /\ ~ParsesAsFutureState(t))

\* A pointer to a variant is routed to FutureStatePrinter and its to_string
\* ends in the AttributeError of the failed match.
C14_PointerFailsToMatch ==
    \E f \in Frames :
        /\ f.value \in VariantPointerValues
        /\ HasPrinter(f) /\ f.printer.ret.cls = "FutureStatePrinter"
        /\ f.said.called /\ f.said.exc = "AttributeError"

\* A variant of a function-pointer result ends in the ValueError of the
\* unpacking.
C14_FunctionResultFailsToUnpack ==
    \E f \in Frames :
        /\ f.value \in FunctionResultValues
        /\ f.said.called /\ f.said.exc = "ValueError"

=============================================================================
